---- MODULE Spec2Model ----
(***************************************************************************)
(* Model of src/error.rs of kafka-rust: the Error and KafkaCode enums, the *)
(* FromPrimitive status mapping, the From conversions, Clone, the          *)
(* error::Error methods and Display.                                       *)
(*                                                                         *)
(* Every function of the file is applied to an input drawn in Init.  The   *)
(* functions are pure, except that Error::clone calls itself; its body is  *)
(* therefore an action that runs once per stack frame.                     *)
(***************************************************************************)
EXTENDS Integers, Sequences, FiniteSets, TLC

VARIABLES
    op,     \* the function of error.rs called last ("start": none yet)
    arg,    \* the argument of that call (the drawn input before any call)
    ret,    \* what the call returned (NoValue while nothing has returned)
    held,   \* Option<Error>: the error value the caller holds
    root,   \* Option<Error>: the value the chain of clones started from
    gen,    \* how many times held has been produced by clone since root
    pc,     \* "idle", "clone" (inside Error::clone), "overflow" (aborted)
    depth   \* number of Error::clone frames on the stack

vars == <<op, arg, ret, held, root, gen, pc, depth>>

---------------------------------------------------------------------------
(* Bounds of the model. *)

\* number of io::ErrorKind values drawn
MaxKind == 3
\* number of distinct messages an io::Error may carry
MaxMsg == 3
\* number of distinct descriptions an io::Error may report
MaxDesc == 2
\* inputs of from_i64 lie in -WideMax..WideMax, those of from_u64 in 0..WideMax
WideMax == 40
\* frames the stack holds before the process is aborted
MaxStack == 4
\* successive duplications of one value
MaxClones == 3

\* width of the argument of from_i16
I16Bits == 16

I16 == (-(2 ^ (I16Bits - 1))) .. (2 ^ (I16Bits - 1) - 1)

---------------------------------------------------------------------------
(* Option<T> *)

Some(v) == [some |-> TRUE, val |-> v]

None == [some |-> FALSE, val |-> "-"]

NoValue == [novalue |-> TRUE]

---------------------------------------------------------------------------
(* io::Error, as far as error.rs reads it: its kind(), the message its     *)
(* Display writes, its description() and its cause().                      *)

KindTable == <<"NotFound", "ConnectionRefused", "TimedOut", "BrokenPipe",
               "Other", "Interrupted">>

MsgTable == <<"Io Error", "connection refused", "timed out", "broken pipe",
              "unexpected end of file">>

DescTable == <<"os error", "Io Error", "custom error", "other os error">>

IoKinds == {KindTable[i] : i \in 1..MaxKind}

IoMsgs == {MsgTable[i] : i \in 1..MaxMsg}

IoDescs == {DescTable[i] : i \in 1..MaxDesc}

IoCauses == {None, Some("inner cause")}

IoErrors == [kind : IoKinds, msg : IoMsgs, desc : IoDescs, cause : IoCauses]

\* io::Error::new(kind, "Io Error"): a custom error built from a &str
io_Error_new(kind, text) ==
    [kind |-> kind, msg |-> text, desc |-> text, cause |-> None]

---------------------------------------------------------------------------
(* enum KafkaCode, in declaration order.  A code is its position in the    *)
(* declaration; #[derive(Debug)] writes the variant's name.                *)

KafkaCode == <<
    "Unknown",
    "OffsetOutOfRange",
    "InvalidMessage",
    "UnknownTopicOrPartition",
    "InvalidMessageSize",
    "LeaderNotAvailable",
    "NotLeaderForPartition",
    "RequestTimedOut",
    "BrokerNotAvailable",
    "ReplicaNotAvailable",
    "MessageSizeTooLarge",
    "StaleControllerEpochCode",
    "OffsetMetadataTooLargeCode",
    "OffsetsLoadInProgressCode",
    "ConsumerCoordinatorNotAvailableCode",
    "NotCoordinatorForConsumerCode",
    "InvalidTopicCode",
    "RecordListTooLargeCode",
    "NotEnoughReplicasCode",
    "NotEnoughReplicasAfterAppendCode",
    "InvalidRequiredAcksCode",
    "IllegalGenerationCode",
    "InconsistentGroupProtocolCode",
    "InvalidGroupIdCode",
    "UnknownMemberIdCode",
    "InvalidSessionTimeoutCode",
    "RebalanceInProgressCode",
    "InvalidCommitOffsetSizeCode",
    "TopicAuthorizationFailedCode",
    "GroupAuthorizationFailedCode",
    "ClusterAuthorizationFailedCode" >>

KafkaCodes == 1..Len(KafkaCode)

\* KafkaCode::<name>
Code(name) == CHOOSE c \in KafkaCodes : KafkaCode[c] = name

\* {:?} of a KafkaCode
Debug(c) == KafkaCode[c]

---------------------------------------------------------------------------
(* enum Error *)

Io(e) == [tag |-> "Io", err |-> e]

Kafka(c) == [tag |-> "Kafka", code |-> c]

InvalidInputSnappy == [tag |-> "InvalidInputSnappy"]

UnexpectedEOF == [tag |-> "UnexpectedEOF"]

CodecError == [tag |-> "CodecError"]

StringDecodeError == [tag |-> "StringDecodeError"]

NoHostReachable == [tag |-> "NoHostReachable"]

PayloadFree == {InvalidInputSnappy, UnexpectedEOF, CodecError,
                StringDecodeError, NoHostReachable}

Errors == {Io(e) : e \in IoErrors} \cup {Kafka(c) : c \in KafkaCodes}
              \cup PayloadFree

\* byteorder::Error
ByteorderErrors == {[tag |-> "UnexpectedEOF"]}
                       \cup {[tag |-> "Io", err |-> e] : e \in IoErrors}

---------------------------------------------------------------------------
(* impl FromPrimitive for Error *)

\* The wire values the arms of from_i16 name.
Documented == {-1} \cup (1..12) \cup (14..31)

\* The position in the declaration of KafkaCode of the variant the arm of
\* wire value n names: the arms follow the declaration, 13 has none.
TableOrder(n) == IF n = -1 THEN 1 ELSE IF n <= 12 THEN n + 1 ELSE n

\* from_i16 with the arms of 5 and 6 exchanged
from_i16_exchanged_arms(n) ==
    CASE n = 5 -> Some(Kafka(TableOrder(6)))
      [] n = 6 -> Some(Kafka(TableOrder(5)))
      [] n \in Documented \ {5, 6} -> Some(Kafka(TableOrder(n)))
      [] OTHER -> None

\* from_i16 with the default arm of from_i64: _ => Some(Kafka(Unknown))
from_i16_default_unknown(n) ==
    CASE n \in Documented -> Some(Kafka(TableOrder(n)))
      [] OTHER -> Some(Kafka(1))

\* from_i16 with the arm of 14 a copy of the arm of 12
from_i16_copied_arm(n) ==
    CASE n = 14 -> Some(Kafka(TableOrder(12)))
      [] n \in Documented \ {14} -> Some(Kafka(TableOrder(n)))
      [] OTHER -> None

\* from_i64 narrowing its argument and looking it up like from_i16
from_i64_lookup(n) ==
    CASE n \in Documented -> Some(Kafka(TableOrder(n)))
      [] OTHER -> None

from_i16(n) ==
    CASE n = 1 -> Some(Kafka(Code("OffsetOutOfRange")))
      [] n = 2 -> Some(Kafka(Code("InvalidMessage")))
      [] n = 3 -> Some(Kafka(Code("UnknownTopicOrPartition")))
      [] n = 4 -> Some(Kafka(Code("InvalidMessageSize")))
      [] n = 5 -> Some(Kafka(Code("LeaderNotAvailable")))
      [] n = 6 -> Some(Kafka(Code("NotLeaderForPartition")))
      [] n = 7 -> Some(Kafka(Code("RequestTimedOut")))
      [] n = 8 -> Some(Kafka(Code("BrokerNotAvailable")))
      [] n = 9 -> Some(Kafka(Code("ReplicaNotAvailable")))
      [] n = 10 -> Some(Kafka(Code("MessageSizeTooLarge")))
      [] n = 11 -> Some(Kafka(Code("StaleControllerEpochCode")))
      [] n = 12 -> Some(Kafka(Code("OffsetMetadataTooLargeCode")))
      [] n = 14 -> Some(Kafka(Code("OffsetsLoadInProgressCode")))
      [] n = 15 -> Some(Kafka(Code("ConsumerCoordinatorNotAvailableCode")))
      [] n = 16 -> Some(Kafka(Code("NotCoordinatorForConsumerCode")))
      [] n = 17 -> Some(Kafka(Code("InvalidTopicCode")))
      [] n = 18 -> Some(Kafka(Code("RecordListTooLargeCode")))
      [] n = 19 -> Some(Kafka(Code("NotEnoughReplicasCode")))
      [] n = 20 -> Some(Kafka(Code("NotEnoughReplicasAfterAppendCode")))
      [] n = 21 -> Some(Kafka(Code("InvalidRequiredAcksCode")))
      [] n = 22 -> Some(Kafka(Code("IllegalGenerationCode")))
      [] n = 23 -> Some(Kafka(Code("InconsistentGroupProtocolCode")))
      [] n = 24 -> Some(Kafka(Code("InvalidGroupIdCode")))
      [] n = 25 -> Some(Kafka(Code("UnknownMemberIdCode")))
      [] n = 26 -> Some(Kafka(Code("InvalidSessionTimeoutCode")))
      [] n = 27 -> Some(Kafka(Code("RebalanceInProgressCode")))
      [] n = 28 -> Some(Kafka(Code("InvalidCommitOffsetSizeCode")))
      [] n = 29 -> Some(Kafka(Code("TopicAuthorizationFailedCode")))
      [] n = 30 -> Some(Kafka(Code("GroupAuthorizationFailedCode")))
      [] n = 31 -> Some(Kafka(Code("ClusterAuthorizationFailedCode")))
      [] n = -1 -> Some(Kafka(Code("Unknown")))
      [] OTHER -> None

from_i64(n) == Some(Kafka(Code("Unknown")))

from_u64(n) == Some(Kafka(Code("Unknown")))

---------------------------------------------------------------------------
(* impl From<io::Error> for Error, impl From<byteorder::Error> for Error *)

from_io_Error(err) == Io(err)

\* the end of input reported as a codec error
from_byteorder_Error_as_codec(err) ==
    CASE err.tag = "UnexpectedEOF" -> CodecError
      [] err.tag = "Io" -> Io(err.err)

from_byteorder_Error(err) ==
    CASE err.tag = "UnexpectedEOF" -> UnexpectedEOF
      [] err.tag = "Io" -> Io(err.err)

---------------------------------------------------------------------------
(* impl Clone for Error: the arm of an Io value.  The other arm calls      *)
(* Error::clone again and is the action CloneRecurse below.                *)

\* the copy built with a fixed kind instead of err.kind()
clone_Io_fixed_kind(err) == Io(io_Error_new("Other", "Io Error"))

clone_Io(err) == Io(io_Error_new(err.kind, "Io Error"))

---------------------------------------------------------------------------
(* impl error::Error for Error *)

\* StringDecodeError described with the text of CodecError
description_copied_text(self) ==
    CASE self.tag = "Io" -> self.err.desc
      [] self.tag = "Kafka" -> "Kafka Error"
      [] self.tag = "InvalidInputSnappy" -> "Snappy decode error"
      [] self.tag = "UnexpectedEOF" -> "Unexpected EOF"
      [] self.tag = "CodecError" -> "Encoding/Decoding error"
      [] self.tag = "StringDecodeError" -> "Encoding/Decoding error"
      [] self.tag = "NoHostReachable" -> "No host reachable"

description(self) ==
    CASE self.tag = "Io" -> self.err.desc
      [] self.tag = "Kafka" -> "Kafka Error"
      [] self.tag = "InvalidInputSnappy" -> "Snappy decode error"
      [] self.tag = "UnexpectedEOF" -> "Unexpected EOF"
      [] self.tag = "CodecError" -> "Encoding/Decoding error"
      [] self.tag = "StringDecodeError" -> "String decoding error"
      [] self.tag = "NoHostReachable" -> "No host reachable"

cause(self) ==
    CASE self.tag = "Io" -> self.err.cause
      [] OTHER -> None

---------------------------------------------------------------------------
(* impl fmt::Display for Error.  The text written is the sequence of the   *)
(* pieces the format string puts together.                                 *)

\* Kafka(c) written without its code
fmt_without_code(self) ==
    CASE self.tag = "Io" -> <<self.err.msg>>
      [] self.tag = "Kafka" -> <<"Kafka Error">>
      [] self.tag = "InvalidInputSnappy" -> <<"Snappy decoding error">>
      [] self.tag = "UnexpectedEOF" -> <<"Unexpected EOF">>
      [] self.tag = "CodecError" -> <<"Encoding/Decoding Error">>
      [] self.tag = "StringDecodeError" -> <<"String decoding error">>
      [] self.tag = "NoHostReachable" -> <<"No Host Reachable">>

fmt(self) ==
    CASE self.tag = "Io" -> <<self.err.msg>>
      [] self.tag = "Kafka" -> <<"Kafka Error (", Debug(self.code), ")">>
      [] self.tag = "InvalidInputSnappy" -> <<"Snappy decoding error">>
      [] self.tag = "UnexpectedEOF" -> <<"Unexpected EOF">>
      [] self.tag = "CodecError" -> <<"Encoding/Decoding Error">>
      [] self.tag = "StringDecodeError" -> <<"String decoding error">>
      [] self.tag = "NoHostReachable" -> <<"No Host Reachable">>

---------------------------------------------------------------------------
(* The inputs, and the state before any call. *)

Inputs ==
    [type : {"i16"}, n : I16]
        \cup [type : {"i64"}, n : (-WideMax)..WideMax]
        \cup [type : {"u64"}, n : 0..WideMax]
        \cup [type : {"io::Error"}, err : IoErrors]
        \cup [type : {"byteorder::Error"}, err : ByteorderErrors]

\* Either an input of a conversion is at hand, or the caller has built an
\* Error value itself (the enum's variants are public).
Init ==
    /\ op = "start"
    /\ ret = NoValue
    /\ gen = 0
    /\ pc = "idle"
    /\ depth = 0
    /\ \/ arg \in Inputs /\ held = None
       \/ arg = NoValue /\ held \in {Some(e) : e \in Errors}
    /\ root = held

\* a conversion returned r: the caller holds it
Converted(name, r) ==
    /\ op' = name
    /\ ret' = r
    /\ held' = r
    /\ root' = r
    /\ UNCHANGED <<arg, gen, pc, depth>>

FromI16 ==
    /\ op = "start" /\ arg # NoValue /\ arg.type = "i16"
    /\ Converted("from_i16", from_i16(arg.n))

FromI64 ==
    /\ op = "start" /\ arg # NoValue /\ arg.type = "i64"
    /\ Converted("from_i64", from_i64(arg.n))

FromU64 ==
    /\ op = "start" /\ arg # NoValue /\ arg.type = "u64"
    /\ Converted("from_u64", from_u64(arg.n))

FromIoError ==
    /\ op = "start" /\ arg # NoValue /\ arg.type = "io::Error"
    /\ Converted("from_io_Error", Some(from_io_Error(arg.err)))

FromByteorderError ==
    /\ op = "start" /\ arg # NoValue /\ arg.type = "byteorder::Error"
    /\ Converted("from_byteorder_Error", Some(from_byteorder_Error(arg.err)))

\* a method taking &self is called on the held value
Description ==
    /\ pc = "idle" /\ held.some
    /\ op' = "description"
    /\ arg' = held.val
    /\ ret' = description(held.val)
    /\ UNCHANGED <<held, root, gen, pc, depth>>

Cause ==
    /\ pc = "idle" /\ held.some
    /\ op' = "cause"
    /\ arg' = held.val
    /\ ret' = cause(held.val)
    /\ UNCHANGED <<held, root, gen, pc, depth>>

Display ==
    /\ pc = "idle" /\ held.some
    /\ op' = "fmt"
    /\ arg' = held.val
    /\ ret' = fmt(held.val)
    /\ UNCHANGED <<held, root, gen, pc, depth>>

\* held.clone() is called: the first frame of Error::clone
CloneCall ==
    /\ pc = "idle" /\ held.some /\ gen < MaxClones
    /\ op' = "clone"
    /\ arg' = held.val
    /\ ret' = NoValue
    /\ pc' = "clone"
    /\ depth' = 1
    /\ UNCHANGED <<held, root, gen>>

\* Error::Io(ref err) => Error::Io(io::Error::new(err.kind(), "Io Error")):
\* the frame returns, and the caller goes on with the copy
CloneIo ==
    /\ pc = "clone" /\ arg.tag = "Io"
    /\ ret' = clone_Io(arg.err)
    /\ held' = Some(ret')
    /\ gen' = gen + 1
    /\ pc' = "idle"
    /\ depth' = depth - 1
    /\ UNCHANGED <<op, arg, root>>

\* ref x => x.clone(): x is a &Error, so this is Error::clone on the same
\* value, in a new frame.  (A build that turns the tail call into a jump
\* reuses the frame instead: a step that changes nothing, and the call
\* never returns either.)
CloneRecurse ==
    /\ pc = "clone" /\ arg.tag # "Io"
    /\ depth < MaxStack
    /\ depth' = depth + 1
    /\ UNCHANGED <<op, arg, ret, held, root, gen, pc>>

\* no room for the next frame: the process is aborted
CloneOverflow ==
    /\ pc = "clone" /\ arg.tag # "Io"
    /\ depth = MaxStack
    /\ pc' = "overflow"
    /\ UNCHANGED <<op, arg, ret, held, root, gen, depth>>

Next ==
    \/ FromI16
    \/ FromI64
    \/ FromU64
    \/ FromIoError
    \/ FromByteorderError
    \/ Description
    \/ Cause
    \/ Display
    \/ CloneCall
    \/ CloneIo
    \/ CloneRecurse
    \/ CloneOverflow

Spec == Init /\ [][Next]_vars

---------------------------------------------------------------------------
(* The claims. *)

\* C1: for every i16 n, from_i16(n) is a value, and for every n that no arm
\* names (0, 13, 9999, -2, ...) it is Kafka(Unknown).
C1_UndocumentedIsUnknown ==
    op = "from_i16" =>
        /\ ret.some
        /\ arg.n \notin Documented =>
               (ret.val.tag = "Kafka" /\ Debug(ret.val.code) = "Unknown")

\* C2: clone of a value that is not Io returns, and what it returns has the
\* variant of the original and, for Kafka(code), its code.
C2_CloneReturnsSameVariant ==
    (op = "clone" /\ arg.tag # "Io") =>
        /\ pc # "overflow"
        /\ pc = "idle" =>
               /\ ret # NoValue
               /\ ret.tag = arg.tag
               /\ arg.tag = "Kafka" => ret.code = arg.code

\* C3: every wire value an arm names maps to Kafka of the variant at its
\* place in the declaration of KafkaCode: -1 to Unknown, 1 to
\* OffsetOutOfRange, 5 to LeaderNotAvailable, 6 to NotLeaderForPartition,
\* 7 to RequestTimedOut, 31 to ClusterAuthorizationFailedCode, and so on.
C3_DocumentedValues ==
    (op = "from_i16" /\ arg.n \in Documented) =>
        /\ ret.some
        /\ ret.val.tag = "Kafka"
        /\ ret.val.code = TableOrder(arg.n)
        /\ arg.n = -1 => Debug(ret.val.code) = "Unknown"
        /\ arg.n = 1 => Debug(ret.val.code) = "OffsetOutOfRange"
        /\ arg.n = 5 => Debug(ret.val.code) = "LeaderNotAvailable"
        /\ arg.n = 6 => Debug(ret.val.code) = "NotLeaderForPartition"
        /\ arg.n = 7 => Debug(ret.val.code) = "RequestTimedOut"
        /\ arg.n = 12 => Debug(ret.val.code) = "OffsetMetadataTooLargeCode"
        /\ arg.n = 14 => Debug(ret.val.code) = "OffsetsLoadInProgressCode"
        /\ arg.n = 31 => Debug(ret.val.code) = "ClusterAuthorizationFailedCode"

C3_Witness ==
    /\ op = "from_i16"
    /\ arg.n = 5
    /\ ret.some
    /\ Debug(ret.val.code) = "LeaderNotAvailable"

\* C4: over the whole of i16, -1 is the only wire value from_i16 maps to
\* Kafka(Unknown).
C4_OnlyMinusOneIsUnknown ==
    op = "from_i16" =>
        (arg.n = -1 <=>
            (ret.some /\ ret.val.tag = "Kafka"
                 /\ Debug(ret.val.code) = "Unknown"))

C4_Witness ==
    /\ op = "from_i16"
    /\ arg.n = 9999
    /\ ret = None

\* C5: clone of Io(e) returns an Io value of e's kind with the message
\* "Io Error", whatever e's message; after any number of successive clones
\* the value is still Io of the kind of the first one; and the value cloned
\* is left as it was.
C5_CloneIoKeepsKind ==
    /\ [](
         (op = "clone" /\ pc = "idle" /\ arg.tag = "Io") =>
             /\ ret.tag = "Io"
             /\ ret.err.kind = arg.err.kind
             /\ ret.err.msg = "Io Error"
             /\ held = Some(ret)
             /\ gen >= 1
             /\ root.val.tag = "Io"
             /\ ret.err.kind = root.val.err.kind)
    /\ [][(pc = "clone" /\ arg.tag = "Io") =>
             (arg' = arg /\ root' = root /\ pc' = "idle")]_vars

C5_Witness ==
    /\ op = "clone"
    /\ pc = "idle"
    /\ gen >= 2
    /\ root.val.tag = "Io"
    /\ root.val.err.msg # "Io Error"
    /\ root.val.err.kind = "ConnectionRefused"
    /\ ret.err.kind = "ConnectionRefused"

\* C6: a failure of a lower layer becomes exactly one Error: an io::Error e
\* becomes Io(e), e itself; a byteorder::Error becomes UnexpectedEOF when it
\* is the end of input and Io(e) when it carries the io::Error e; the result
\* is never Kafka(_), CodecError, StringDecodeError, InvalidInputSnappy or
\* NoHostReachable.
C6_ConversionsKeepCause ==
    /\ op = "from_io_Error" =>
           /\ ret.some
           /\ ret.val.tag = "Io"
           /\ ret.val.err = arg.err
    /\ op = "from_byteorder_Error" =>
           /\ ret.some
           /\ arg.err.tag = "UnexpectedEOF" => ret.val.tag = "UnexpectedEOF"
           /\ arg.err.tag = "Io" =>
                  (ret.val.tag = "Io" /\ ret.val.err = arg.err.err)
           /\ ret.val.tag \in {"Io", "UnexpectedEOF"}

C6_Witness ==
    /\ op = "from_byteorder_Error"
    /\ arg.err.tag = "UnexpectedEOF"
    /\ ret.val.tag = "UnexpectedEOF"

\* C7: Display writes a message for every Error: "Kafka Error (<name of the
\* code>)" for Kafka(code), so that two codes never give one message; the
\* message of e itself for Io(e); and for each of the other five variants
\* one fixed text.
C7_DisplayMessages ==
    op = "fmt" =>
        /\ Len(ret) >= 1
        /\ arg.tag = "Kafka" =>
               /\ ret = <<"Kafka Error (", KafkaCode[arg.code], ")">>
               /\ \A c \in KafkaCodes \ {arg.code} : fmt(Kafka(c)) # ret
        /\ arg.tag = "Io" => ret = <<arg.err.msg>>
        /\ arg.tag = "InvalidInputSnappy" => ret = <<"Snappy decoding error">>
        /\ arg.tag = "UnexpectedEOF" => ret = <<"Unexpected EOF">>
        /\ arg.tag = "CodecError" => ret = <<"Encoding/Decoding Error">>
        /\ arg.tag = "StringDecodeError" => ret = <<"String decoding error">>
        /\ arg.tag = "NoHostReachable" => ret = <<"No Host Reachable">>

C7_Witness ==
    /\ op = "fmt"
    /\ arg.tag = "Kafka"
    /\ ret = <<"Kafka Error (", "RequestTimedOut", ")">>

\* C8: description is "Kafka Error" for every Kafka(code), e's description
\* for Io(e), and a fixed text for each of the other five variants; the six
\* fixed texts differ from each other; cause is None for every value that
\* is not Io.
C8_DescriptionPerVariant ==
    /\ op = "description" =>
           /\ arg.tag = "Kafka" => ret = "Kafka Error"
           /\ arg.tag = "Io" => ret = arg.err.desc
           /\ arg.tag # "Io" =>
                  \A e \in Errors :
                      e.tag # "Io" =>
                          (description(e) = ret <=> e.tag = arg.tag)
    /\ (op = "cause" /\ arg.tag # "Io") => ret = None

C8_Witness ==
    /\ op = "description"
    /\ arg.tag = "StringDecodeError"
    /\ ret = "String decoding error"

\* C9: from_i16 is a bijection between the 31 wire values its arms name and
\* the 31 variants of KafkaCode: no two wire values give the same code, and
\* every variant is the image of exactly one i16.
C9_TableIsBijection ==
    /\ Cardinality(Documented) = Len(KafkaCode)
    /\ (op = "from_i16" /\ ret.some) =>
           /\ arg.n \in Documented
           /\ ret.val.tag = "Kafka"
           /\ \A m \in I16 \ {arg.n} : from_i16(m) # ret
    /\ (held.some /\ held.val.tag = "Kafka") =>
           \E m \in Documented : from_i16(m) = held

C9_Witness ==
    /\ op = "from_i16"
    /\ arg.n = 14
    /\ ret.some
    /\ Debug(ret.val.code) = "OffsetsLoadInProgressCode"

\* C10: from_i64 and from_u64 ignore their argument: they return
\* Kafka(Unknown) for every n, never nothing, and so for a wire value such
\* as 1 or 5 not the code from_i16 returns for it.
C10_WideIgnoresArgument ==
    op \in {"from_i64", "from_u64"} =>
        /\ ret.some
        /\ ret.val.tag = "Kafka"
        /\ Debug(ret.val.code) = "Unknown"
        /\ arg.n \in Documented \ {-1} => ret # from_i16(arg.n)

C10_Witness ==
    /\ op = "from_i64"
    /\ arg.n = 5
    /\ ret.some
    /\ Debug(ret.val.code) = "Unknown"

====
